---- MODULE Spec2Model ----
(***************************************************************************)
(* A model of the Air Defense GUI (PyQt5): the activation flag kept by the *)
(* main window, the simulated laser power kept by LaserPowerController,    *)
(* the one-shot timers of the start/stop sequences, and what each event    *)
(* handler writes to the log, the terminal and the ROS connector.          *)
(*                                                                         *)
(* Every handler of the program runs to completion on the Qt event loop;   *)
(* each is modelled as a function from the state before it to the state    *)
(* after it, and every action of the model is one handler.                 *)
(*                                                                         *)
(* Text is modelled as a sequence of one-character strings, so that the    *)
(* label "16%" is <<"1","6","%">> and formatting and parsing are computed. *)
(* A log line, a terminal line or a printed ROS line is a sequence of      *)
(* string fragments (its constant parts kept whole).  Timestamps and the   *)
(* build date are left out of the lines.                                   *)
(***************************************************************************)
EXTENDS Integers, Sequences, FiniteSets, TLC

VARIABLES
    system_active,                \* AirDefenseGUI.system_active
    current_power_display_label,  \* text of LaserPowerController.current_power_display_label
    target_power_slider,          \* value of LaserPowerController.target_power_slider
    start_button_enabled,         \* SystemControlButtons.start_button.isEnabled()
    stop_button_enabled,          \* SystemControlButtons.stop_button.isEnabled()
    health,                       \* what HealthCheckDisplay shows, one flag per component
    is_camera_feed_active,        \* ImageView.is_camera_feed_active
    pending,                      \* the QTimer.singleShot callbacks not yet run, by due time
    log_added,                    \* log entries appended by the handler that ran last
    terminal_added,               \* terminal lines appended by the handler that ran last
    ros_published,                \* ROSConnector publish calls made by the handler that ran last
    target_power_display_label,   \* text of LaserPowerController.target_power_display_label
    pid_inputs,                   \* texts of PidTuningPanel's fields: <<P, I, D>> per motor
    scenario,                     \* which handlers the run exercises; never changes
    trace,                        \* the handler that ran last and the branches it took
    prev_current,                 \* the current power before the handler that ran last
    last_request,                 \* the start or stop request handled last: "start", "stop", "none"
    last_published,               \* the "start" or "stop" system command published last, or "none"
    log_timer,                    \* AirDefenseGUI.log_timer.isActive()
    power_simulation_timer,       \* AirDefenseGUI.power_simulation_timer.isActive()
    closed,                       \* whether closeEvent has been handled
    reboot_entered,               \* whether "reboot" has been entered in the terminal
    frame,                        \* the call of update_current_power_display in progress, where
                                  \* a run follows it statement by statement: its position and
                                  \* its argument and locals
    no_fire_zone                  \* NoFireZoneWidget: its two fields, its status, the zones emitted
                                  \* by the handler that ran last

vars == <<system_active, current_power_display_label, target_power_slider,
          start_button_enabled, stop_button_enabled, health, is_camera_feed_active,
          pending, log_added, terminal_added, ros_published,
          target_power_display_label, pid_inputs, scenario, trace, prev_current,
          last_request, last_published, log_timer, power_simulation_timer, closed,
          reboot_entered, frame, no_fire_zone>>

-----------------------------------------------------------------------------
(* Bounds of the model and constants of the program.                       *)

\* The most one-shot timers the model lets be pending at once.
MaxPending == 5
\* The most pending one-shot timers of the same callback.
MaxSame == 1

\* A low target: the target and the power the runs of the start/stop handlers
\* and of the terminal start from, and one of the targets the runs of the
\* power controller start from.
LowTarget == 3

\* The values the operator drags the slider to in the model.
SliderStops == {100}

\* QSlider.setRange(0, 100) and the clamp of the simulated power.
POWER_MIN == 0
POWER_MAX == 100
\* target_power_slider.setValue(50)
DEFAULT_TARGET == 50
\* The fine-tune buttons move the slider by 5.
BUTTON_STEP == 5
\* abs(diff) > 2 and int(diff / 5)
CLOSE_BAND == 2
ADJUST_DIVISOR == 5
\* random.randint(1, 3): the decay of an inactive system.
DECAY_MAX == 3
\* The delays of the one-shot timers, in units of 100 ms: the start sequence
\* (100, 300, 500), the stop sequence (100, 300), reboot's delayed start (800),
\* the end of a calibration (1000) and the result of a scan (1500).
DELAY_CORE_INIT == 1
DELAY_ROS_LINK == 3
DELAY_SYSTEM_ACTIVE == 5
DELAY_POWER_DOWN == 1
DELAY_SYSTEM_INACTIVE == 3
DELAY_REBOOT_START == 8
DELAY_CALIBRATED == 10
DELAY_SCAN_RESULT == 15

-----------------------------------------------------------------------------
(* Integers and text.                                                      *)

Abs(x) == IF x < 0 THEN -x ELSE x
Max(a, b) == IF a >= b THEN a ELSE b
Min(a, b) == IF a <= b THEN a ELSE b

Digits == <<"0", "1", "2", "3", "4", "5", "6", "7", "8", "9">>
IsDigit(c) == \E d \in 1..10 : Digits[d] = c
DigitVal(c) == (CHOOSE d \in 1..10 : Digits[d] = c) - 1

RECURSIVE NatToStr(_)
NatToStr(n) ==
    IF n < 10 THEN <<Digits[n + 1]>>
    ELSE NatToStr(n \div 10) \o <<Digits[(n % 10) + 1]>>

\* str(n) of a Python int.
IntToStr(n) == IF n < 0 THEN <<"-">> \o NatToStr(-n) ELSE NatToStr(n)

RECURSIVE StrToNat(_)
StrToNat(t) ==
    IF Len(t) = 0 THEN 0
    ELSE 10 * StrToNat(SubSeq(t, 1, Len(t) - 1)) + DigitVal(t[Len(t)])

\* Whether int(t) succeeds: an optional sign and at least one digit.
IsIntText(t) ==
    /\ Len(t) > 0
    /\ LET body == IF t[1] \in {"-", "+"} THEN Tail(t) ELSE t
       IN  Len(body) > 0 /\ \A i \in 1..Len(body) : IsDigit(body[i])

\* int(t) where it succeeds.
ParseInt(t) ==
    IF t[1] = "-" THEN -StrToNat(Tail(t))
    ELSE IF t[1] = "+" THEN StrToNat(Tail(t))
    ELSE StrToNat(t)

\* str(b) of a Python bool.
PyBool(b) == IF b THEN "True" ELSE "False"

\* f"{n}%"
FormatPercent(n) == IntToStr(n) \o <<"%">>

\* text.replace('%', '')
StripPercent(t) == SelectSeq(t, LAMBDA c : c # "%")

\* try: int(label.text().replace('%', '')) except ValueError: 0
LabelValue(t) ==
    IF IsIntText(StripPercent(t)) THEN ParseInt(StripPercent(t)) ELSE 0

-----------------------------------------------------------------------------
(* The state as one record, so that a handler is a function of the state.  *)

\* No call of update_current_power_display is in progress.
IdleFrame == [pc |-> "idle", is_system_active |-> FALSE, current_val |-> 0, target_val |-> 0]

State ==
    [system_active               |-> system_active,
     current_power_display_label |-> current_power_display_label,
     target_power_slider         |-> target_power_slider,
     target_power_display_label  |-> target_power_display_label,
     start_button_enabled        |-> start_button_enabled,
     stop_button_enabled         |-> stop_button_enabled,
     health                      |-> health,
     is_camera_feed_active       |-> is_camera_feed_active,
     pending                     |-> pending,
     log_added                   |-> log_added,
     terminal_added              |-> terminal_added,
     ros_published               |-> ros_published,
     pid_inputs                  |-> pid_inputs,
     trace                       |-> trace,
     prev_current                |-> prev_current,
     last_request                |-> last_request,
     last_published              |-> last_published,
     log_timer                   |-> log_timer,
     power_simulation_timer      |-> power_simulation_timer,
     closed                      |-> closed,
     reboot_entered              |-> reboot_entered,
     frame                       |-> frame,
     no_fire_zone                |-> no_fire_zone]

\* The state after a handler: every variable takes the handler's result.
Commit(s) ==
    /\ system_active' = s.system_active
    /\ current_power_display_label' = s.current_power_display_label
    /\ target_power_slider' = s.target_power_slider
    /\ target_power_display_label' = s.target_power_display_label
    /\ start_button_enabled' = s.start_button_enabled
    /\ stop_button_enabled' = s.stop_button_enabled
    /\ health' = s.health
    /\ is_camera_feed_active' = s.is_camera_feed_active
    /\ pending' = s.pending
    /\ log_added' = s.log_added
    /\ terminal_added' = s.terminal_added
    /\ ros_published' = s.ros_published
    /\ pid_inputs' = s.pid_inputs
    /\ scenario' = scenario
    /\ trace' = s.trace
    /\ prev_current' = s.prev_current
    /\ last_request' = s.last_request
    /\ last_published' = s.last_published
    /\ log_timer' = s.log_timer
    /\ power_simulation_timer' = s.power_simulation_timer
    /\ closed' = s.closed
    /\ reboot_entered' = s.reboot_entered
    /\ frame' = s.frame
    /\ no_fire_zone' = s.no_fire_zone

\* The state a handler named `name` starts from: nothing written yet.
Begin(name) ==
    [State EXCEPT !.log_added = <<>>, !.terminal_added = <<>>, !.ros_published = <<>>,
                  !.trace = <<name>>, !.no_fire_zone.emitted = <<>>,
                  !.prev_current = LabelValue(current_power_display_label)]

\* The handler took the branch `tag`; entering _start_system or _stop_system
\* is the handling of a start or stop request.
Mark(s, tag) ==
    [s EXCEPT !.trace = Append(@, tag),
              !.last_request =
                  CASE tag \in {"start_system:return", "start_system:run"} -> "start"
                    [] tag \in {"stop_system:return", "stop_system:run"} -> "stop"
                    [] OTHER -> @]

-----------------------------------------------------------------------------
(* LogDisplay, CommandTerminal and ROSConnector: the outputs.              *)

\* LogDisplay.add_log_entry(message, is_warning)
add_log_entry(s, message, is_warning) ==
    [s EXCEPT !.log_added = Append(@, [warn |-> is_warning, msg |-> message])]

\* CommandTerminal.append_to_terminal(text)
append_to_terminal(s, text) ==
    [s EXCEPT !.terminal_added = Append(@, text)]

\* ROSConnector.publish_*: a printed line, nothing else.
publish(s, line) == [s EXCEPT !.ros_published = Append(@, line)]

publish_system_command(s, command) ==
    [publish(s, <<"System Command -> ", command>>) EXCEPT
         !.last_published = IF command \in {"start", "stop"} THEN command ELSE @]
publish_laser_action(s, action) == publish(s, <<"Laser Action -> ", action>>)
publish_laser_power(s, power) ==
    publish(s, <<"Laser Power Target -> ">> \o FormatPercent(power))

-----------------------------------------------------------------------------
(* LaserPowerController.                                                   *)

\* A slider that takes any value it is given.
QBound_Unbounded(lo, v, hi) == v

\* QSlider.setValue on a slider of range lo..hi bounds the value it is given.
QBound(lo, v, hi) == Max(lo, Min(hi, v))

\* AirDefenseGUI._handle_laser_target_power_change(power)
handle_laser_target_power_change(s, power) ==
    LET s1 == add_log_entry(s, <<"Laser Target: ">> \o FormatPercent(power), FALSE)
        s2 == append_to_terminal(s1, <<"$ Laser Target Pwr: ">> \o FormatPercent(power))
    IN  publish_laser_power(s2, power)

\* LaserPowerController._on_slider_value_changed(value)
on_slider_value_changed(s, value) ==
    handle_laser_target_power_change(
        [s EXCEPT !.target_power_display_label = FormatPercent(value)], value)

\* target_power_slider.setValue(v): valueChanged is emitted only on a change.
slider_setValue(s, v) ==
    LET value == QBound(POWER_MIN, v, POWER_MAX)
    IN  IF value = s.target_power_slider THEN Mark(s, "slider:unchanged")
        ELSE on_slider_value_changed(
                 Mark([s EXCEPT !.target_power_slider = value], "slider:changed"), value)

\* LaserPowerController.get_target_power()
get_target_power(s) == s.target_power_slider

\* int(diff / 5): Python's int() truncates toward zero.
TruncDiv(a, b) == IF a >= 0 THEN a \div b ELSE -((-a) \div b)

\* diff // 5 in place of int(diff / 5): floor division.
Adjustment_Floor(diff) ==
    LET q == diff \div ADJUST_DIVISOR
    IN  IF q # 0 THEN q ELSE IF diff > 0 THEN 1 ELSE -1

\* int(diff / 5) or (5 if diff > 0 else -5)
Adjustment_BigFallback(diff) ==
    IF TruncDiv(diff, ADJUST_DIVISOR) # 0 THEN TruncDiv(diff, ADJUST_DIVISOR)
    ELSE IF diff > 0 THEN 5 ELSE -5

\* int(diff / 5) alone: no step when it truncates to 0.
Adjustment_NoFallback(diff) == TruncDiv(diff, ADJUST_DIVISOR)

\* int(diff / 5) or (1 if diff > 0 else -1)
Adjustment(diff) ==
    LET q == TruncDiv(diff, ADJUST_DIVISOR)
    IN  IF q # 0 THEN q ELSE IF diff > 0 THEN 1 ELSE -1

\* max(0, v): the upper clamp forgotten.
ClampPower_NoUpper(v) == Max(POWER_MIN, v)

\* max(0, min(100, v))
ClampPower(v) == Max(POWER_MIN, Min(POWER_MAX, v))

\* The fluctuation added on every tick of an active system, far from the target too.
update_current_power_display_NoisyAdjust(s, is_system_active, decay, noise) ==
    LET current_val == LabelValue(s.current_power_display_label)
        diff == get_target_power(s) - current_val
        new_simulated_val ==
            IF is_system_active
            THEN IF Abs(diff) > CLOSE_BAND
                 THEN current_val + Adjustment(diff) + noise
                 ELSE current_val + noise
            ELSE Max(0, current_val - decay) + noise
    IN  Mark([s EXCEPT !.current_power_display_label =
                           FormatPercent(ClampPower(new_simulated_val))], "tick:mutant")

\* Close to the target the power snaps to it instead of fluctuating.
update_current_power_display_Snap(s, is_system_active, decay, noise) ==
    LET current_val == LabelValue(s.current_power_display_label)
        diff == get_target_power(s) - current_val
        new_simulated_val ==
            IF is_system_active
            THEN IF Abs(diff) > CLOSE_BAND
                 THEN current_val + Adjustment(diff)
                 ELSE current_val + diff
            ELSE Max(0, current_val - decay) + noise
    IN  Mark([s EXCEPT !.current_power_display_label =
                           FormatPercent(ClampPower(new_simulated_val))], "tick:mutant")

\* The activation flag ignored: the power follows the target when inactive too.
update_current_power_display_IgnoreActive(s, is_system_active, decay, noise) ==
    LET current_val == LabelValue(s.current_power_display_label)
        diff == get_target_power(s) - current_val
        new_simulated_val ==
            IF Abs(diff) > CLOSE_BAND
            THEN current_val + Adjustment(diff)
            ELSE current_val + noise
    IN  Mark([s EXCEPT !.current_power_display_label =
                           FormatPercent(ClampPower(new_simulated_val))], "tick:mutant")

\* The inactive branch with the noise under the floor:
\* max(0, current_val - decay + noise).
update_current_power_display_NoiseUnderFloor(s, is_system_active, decay, noise) ==
    LET current_val == LabelValue(s.current_power_display_label)
        diff == get_target_power(s) - current_val
        new_simulated_val ==
            IF is_system_active
            THEN IF Abs(diff) > CLOSE_BAND
                 THEN current_val + Adjustment(diff)
                 ELSE current_val + noise
            ELSE Max(0, current_val - decay + noise)
    IN  Mark([s EXCEPT !.current_power_display_label =
                           FormatPercent(ClampPower(new_simulated_val))], "tick:mutant")

\* update_current_power_display from "new_simulated_val = current_val" on:
\* the new power out of the argument and the two values read, and the
\* setText of it.
write_current_power(s, is_system_active, current_val, target_val, decay, noise) ==
    LET diff == target_val - current_val
        new_simulated_val ==
            IF is_system_active
            THEN IF Abs(diff) > CLOSE_BAND
                 THEN current_val + Adjustment(diff)
                 ELSE current_val + noise
            ELSE Max(0, current_val - decay) + noise
        branch ==
            IF is_system_active
            THEN IF Abs(diff) > CLOSE_BAND THEN "tick:adjust" ELSE "tick:noise"
            ELSE "tick:decay"
    IN  Mark([s EXCEPT !.current_power_display_label =
                           FormatPercent(ClampPower(new_simulated_val))], branch)

\* LaserPowerController.update_current_power_display(is_system_active); decay
\* and noise are the values random.randint(1, 3) and random.randint(-1, 1)
\* return when the branch taken draws them.
update_current_power_display(s, is_system_active, decay, noise) ==
    LET current_val == LabelValue(s.current_power_display_label)
        target_val == get_target_power(s)
    IN  write_current_power(s, is_system_active, current_val, target_val, decay, noise)

\* The views of the state the claims speak of.
current == LabelValue(current_power_display_label)
target == target_power_slider
active == system_active

-----------------------------------------------------------------------------
(* Events of the power controller.                                         *)

\* The tick with a decay of 0..3.
TickResults_ZeroDecay ==
    {update_current_power_display(b, system_active, decay, noise) :
         b \in {Begin("tick")}, decay \in 0..DECAY_MAX, noise \in -1..1}

\* The tick with a fluctuation of -2..2.
TickResults_WideNoise ==
    {update_current_power_display(b, system_active, decay, noise) :
         b \in {Begin("tick")}, decay \in 1..DECAY_MAX, noise \in -2..2}

\* The states update_current_power_display(self.system_active) can leave, over
\* the values random.randint(1, 3) and random.randint(-1, 1) can return.
TickResults ==
    {update_current_power_display(b, system_active, decay, noise) :
         b \in {Begin("tick")}, decay \in 1..DECAY_MAX, noise \in -1..1}

\* power_simulation_timer.timeout:
\* lambda: update_current_power_display(self.system_active)
Tick ==
    /\ power_simulation_timer
    /\ \E s \in TickResults : Commit(s)

\* The powers the display can show after the tick of this state.
TickOutcomes == {LabelValue(s.current_power_display_label) : s \in TickResults}

\* The tick statement by statement.  The timer's lambda reads
\* self.system_active and calls update_current_power_display with it.
TickEnter ==
    /\ power_simulation_timer
    /\ frame.pc = "idle"
    /\ Commit([Begin("tick") EXCEPT
                  !.frame = [IdleFrame EXCEPT !.pc = "read_current",
                                              !.is_system_active = system_active]])

\* current_val = int(self.current_power_display_label.text().replace('%', ''))
TickReadCurrent ==
    /\ frame.pc = "read_current"
    /\ Commit([State EXCEPT !.frame.current_val = LabelValue(current_power_display_label),
                            !.frame.pc = "read_target"])

\* target_val = self.get_target_power()
TickReadTarget ==
    /\ frame.pc = "read_target"
    /\ Commit([State EXCEPT !.frame.target_val = get_target_power(State),
                            !.frame.pc = "write"])

\* The rest of update_current_power_display, and its return.
TickWrite ==
    /\ frame.pc = "write"
    /\ \E decay \in 1..DECAY_MAX, noise \in -1..1 :
           Commit(write_current_power([State EXCEPT !.frame = IdleFrame],
                      frame.is_system_active, frame.current_val, frame.target_val,
                      decay, noise))

\* An event is taken up by one where it is not.
Dispatchable_Reentrant == TRUE

\* QApplication.exec_() takes the next event (a click, a timer's timeout)
\* when the handler of the one before has returned; no handler of the
\* program starts an event loop of its own or runs in another thread.
Dispatchable == frame.pc = "idle"

\* The operator drags the slider to v.
SliderMoved ==
    \E v \in SliderStops :
        Commit(slider_setValue(Begin("slider_moved"), v))

\* decrease_btn.clicked: setValue(value() - 5)
DecreaseClicked ==
    Commit(slider_setValue(Begin("decrease_clicked"), target_power_slider - BUTTON_STEP))

\* increase_btn.clicked: setValue(value() + 5)
IncreaseClicked ==
    Commit(slider_setValue(Begin("increase_clicked"), target_power_slider + BUTTON_STEP))

-----------------------------------------------------------------------------
(* Widgets the start and stop sequences write to.                          *)

\* set_buttons_state that leaves the stop button as it is.
set_buttons_state_StartOnly(s, is_system_active) ==
    [s EXCEPT !.start_button_enabled = ~is_system_active]

\* SystemControlButtons.set_buttons_state(is_system_active)
set_buttons_state(s, is_system_active) ==
    [s EXCEPT !.start_button_enabled = ~is_system_active,
              !.stop_button_enabled = is_system_active]

\* HealthCheckDisplay.update_all_statuses(esp32_ok, laser_ok, motors_ok, movement_ok)
update_all_statuses(s, esp32_ok, laser_ok, motors_ok, movement_ok) ==
    [s EXCEPT !.health = [esp32 |-> esp32_ok, laser |-> laser_ok,
                          motors |-> motors_ok, movement |-> movement_ok]]

\* ImageView.stop_camera_feed(): the capture exists exactly while the feed is
\* active; the default picture shown afterwards is not modelled.
stop_camera_feed(s) ==
    IF ~s.is_camera_feed_active THEN Mark(s, "camera:nothing_to_stop")
    ELSE add_log_entry(Mark([s EXCEPT !.is_camera_feed_active = FALSE], "camera:stopped"),
                       <<"Camera feed stopped and released.">>, FALSE)

\* ImageView.start_camera_feed(); opened is whether cv2.VideoCapture opens.
start_camera_feed(s, opened) ==
    IF s.is_camera_feed_active THEN Mark(s, "camera:already_active")
    ELSE IF ~opened
    THEN add_log_entry(Mark(s, "camera:unavailable"),
                       <<"Error: Could not open camera @ index 0.">>, TRUE)
    ELSE add_log_entry(
             add_log_entry(Mark([s EXCEPT !.is_camera_feed_active = TRUE], "camera:started"),
                           <<"Camera 0 opened.">>, FALSE),
             <<"Camera feed started.">>, FALSE)

\* QTimer.singleShot(delay, cb): the callback joins the pending ones, which run
\* by due time and, when due together, in the order they were set.
singleShot(s, delay, cb) ==
    LET k == Cardinality({i \in 1..Len(s.pending) : s.pending[i].due <= delay})
    IN  [s EXCEPT !.pending = SubSeq(@, 1, k) \o <<[due |-> delay, cb |-> cb]>>
                              \o SubSeq(@, k + 1, Len(@))]

-----------------------------------------------------------------------------
(* AirDefenseGUI: the timers' handlers and the close of the window.        *)

\* LogDisplay.add_random_log_entry(); is_warning_event and log_message are
\* what random.choices and random.choice return.
add_random_log_entry(s, is_warning_event, log_message) ==
    add_log_entry(s, <<log_message>>, is_warning_event)

\* closeEvent that leaves the power timer running.
closeEvent_KeepsPowerTimer(s) ==
    LET s1 == add_log_entry(Mark(s, "closeEvent"), <<"GUI Shutting down...">>, FALSE)
        s2 == [s1 EXCEPT !.log_timer = FALSE]
        s3 == stop_camera_feed(s2)
    IN  [s3 EXCEPT !.closed = TRUE]

\* AirDefenseGUI.closeEvent(event): ImageView.cleanup_resources() is
\* stop_camera_feed(), ROSConnector.shutdown() prints a line.
closeEvent(s) ==
    LET s1 == add_log_entry(Mark(s, "closeEvent"), <<"GUI Shutting down...">>, FALSE)
        s2 == [s1 EXCEPT !.log_timer = FALSE]
        s3 == [s2 EXCEPT !.power_simulation_timer = FALSE]
        s4 == stop_camera_feed(s3)
    IN  [s4 EXCEPT !.closed = TRUE]

-----------------------------------------------------------------------------
(* AirDefenseGUI: the system state handlers.                               *)

\* _start_system without its first line: it runs when the system is active too.
start_system_Unguarded(s) ==
    LET s1 == add_log_entry(Mark(s, "start_system:run"), <<"SYSTEM STARTING...">>, TRUE)
        s2 == [s1 EXCEPT !.system_active = TRUE]
        s3 == set_buttons_state(s2, s2.system_active)
        s4 == append_to_terminal(s3, <<"Attempting system start...">>)
        s5 == singleShot(s4, DELAY_CORE_INIT, "start:core_init")
        s6 == singleShot(s5, DELAY_ROS_LINK, "start:ros_link")
    IN  singleShot(s6, DELAY_SYSTEM_ACTIVE, "start:system_active")

\* _start_system that leaves the flag to a later event: everything but the
\* assignment of system_active.
start_system_Deferred(s) ==
    IF s.system_active THEN Mark(s, "start_system:return")
    ELSE LET s1 == add_log_entry(Mark(s, "start_system:run"), <<"SYSTEM STARTING...">>, TRUE)
             s3 == set_buttons_state(s1, TRUE)
             s4 == append_to_terminal(s3, <<"Attempting system start...">>)
             s5 == singleShot(s4, DELAY_CORE_INIT, "start:core_init")
             s6 == singleShot(s5, DELAY_ROS_LINK, "start:ros_link")
         IN  singleShot(s6, DELAY_SYSTEM_ACTIVE, "start:system_active")

\* AirDefenseGUI._start_system()
start_system(s) ==
    IF s.system_active THEN Mark(s, "start_system:return")
    ELSE LET s1 == add_log_entry(Mark(s, "start_system:run"), <<"SYSTEM STARTING...">>, TRUE)
             s2 == [s1 EXCEPT !.system_active = TRUE]
             s3 == set_buttons_state(s2, s2.system_active)
             s4 == append_to_terminal(s3, <<"Attempting system start...">>)
             s5 == singleShot(s4, DELAY_CORE_INIT, "start:core_init")
             s6 == singleShot(s5, DELAY_ROS_LINK, "start:ros_link")
         IN  singleShot(s6, DELAY_SYSTEM_ACTIVE, "start:system_active")

\* _stop_system without its first line: it runs when the system is inactive too.
stop_system_Unguarded(s) ==
    LET s1 == add_log_entry(Mark(s, "stop_system:run"), <<"SYSTEM STOPPING...">>, TRUE)
        s2 == IF s1.is_camera_feed_active THEN stop_camera_feed(s1) ELSE s1
        s3 == [s2 EXCEPT !.system_active = FALSE]
        s4 == set_buttons_state(s3, s3.system_active)
        s5 == append_to_terminal(s4, <<"Attempting system stop...">>)
        s6 == singleShot(s5, DELAY_POWER_DOWN, "stop:power_down")
    IN  singleShot(s6, DELAY_SYSTEM_INACTIVE, "stop:system_inactive")

\* _stop_system that also puts the power display back to "0%".
stop_system_ResetsPower(s) ==
    IF ~s.system_active THEN Mark(s, "stop_system:return")
    ELSE LET s1 == add_log_entry(Mark(s, "stop_system:run"), <<"SYSTEM STOPPING...">>, TRUE)
             s2 == IF s1.is_camera_feed_active THEN stop_camera_feed(s1) ELSE s1
             s3 == [s2 EXCEPT !.system_active = FALSE,
                              !.current_power_display_label = <<"0", "%">>]
             s4 == set_buttons_state(s3, s3.system_active)
             s5 == append_to_terminal(s4, <<"Attempting system stop...">>)
             s6 == singleShot(s5, DELAY_POWER_DOWN, "stop:power_down")
         IN  singleShot(s6, DELAY_SYSTEM_INACTIVE, "stop:system_inactive")

\* AirDefenseGUI._stop_system()
stop_system(s) ==
    IF ~s.system_active THEN Mark(s, "stop_system:return")
    ELSE LET s1 == add_log_entry(Mark(s, "stop_system:run"), <<"SYSTEM STOPPING...">>, TRUE)
             s2 == IF s1.is_camera_feed_active THEN stop_camera_feed(s1) ELSE s1
             s3 == [s2 EXCEPT !.system_active = FALSE]
             s4 == set_buttons_state(s3, s3.system_active)
             s5 == append_to_terminal(s4, <<"Attempting system stop...">>)
             s6 == singleShot(s5, DELAY_POWER_DOWN, "stop:power_down")
         IN  singleShot(s6, DELAY_SYSTEM_INACTIVE, "stop:system_inactive")

\* _handle_shoot_command without its check of the activation flag.
handle_shoot_command_Unguarded(s) ==
    LET s1 == add_log_entry(Mark(s, "shoot:fire"), <<"ACTION: FIRING LASER (Simulated)">>, TRUE)
        s2 == append_to_terminal(s1, <<"$ ACTION: FIRING">>)
    IN  publish_laser_action(s2, "fire")

\* AirDefenseGUI._handle_shoot_command()
handle_shoot_command(s) ==
    IF ~s.system_active
    THEN LET s1 == add_log_entry(Mark(s, "shoot:inactive"),
                                 <<"Cannot SHOOT: System INACTIVE.">>, TRUE)
         IN  append_to_terminal(s1, <<"WARN: ", "Cannot SHOOT: System INACTIVE.">>)
    ELSE LET s1 == add_log_entry(Mark(s, "shoot:fire"),
                                 <<"ACTION: FIRING LASER (Simulated)">>, TRUE)
             s2 == append_to_terminal(s1, <<"$ ACTION: FIRING">>)
         IN  publish_laser_action(s2, "fire")

\* AirDefenseGUI._update_health_from_ros(status)
update_health_from_ros(s, status) ==
    LET s1 == add_log_entry(s, <<"ROS Health Update: ", PyBool(status.esp32),
                                 PyBool(status.laser), PyBool(status.motors),
                                 PyBool(status.movement)>>, FALSE)
    IN  update_all_statuses(s1, status.esp32, status.laser, status.motors, status.movement)

\* The callbacks with the activation moved into the last one of the start
\* sequence: the flag is set when "System ACTIVE." is printed.
run_callback_Activates(s, cb, found) ==
    CASE cb = "start:core_init" ->
           append_to_terminal(s, <<"Core modules initializing...">>)
      [] cb = "start:ros_link" ->
           append_to_terminal(s, <<"ROS2 link active (simulated).">>)
      [] cb = "start:system_active" ->
           publish_system_command(
               update_all_statuses(
                   append_to_terminal([s EXCEPT !.system_active = TRUE], <<"System ACTIVE.">>),
                   TRUE, TRUE, TRUE, TRUE),
               "start")
      [] cb = "stop:power_down" ->
           append_to_terminal(s, <<"Powering down modules...">>)
      [] cb = "stop:system_inactive" ->
           publish_system_command(
               update_all_statuses(append_to_terminal(s, <<"System INACTIVE.">>),
                                   FALSE, FALSE, FALSE, FALSE),
               "stop")
      [] cb = "reboot:start_system" -> start_system(s)
      [] cb = "calibrate:complete" ->
           append_to_terminal(s, <<"Calibration complete (simulated).">>)
      [] cb = "scan:result" ->
           append_to_terminal(s, <<"Scan: ", IF found THEN "Target found (simulated)"
                                                      ELSE "No targets (simulated)">>)

\* The callbacks, the delayed start of "reboot" doing nothing.
run_callback_NoRebootStart(s, cb, found) ==
    CASE cb = "start:core_init" ->
           append_to_terminal(s, <<"Core modules initializing...">>)
      [] cb = "start:ros_link" ->
           append_to_terminal(s, <<"ROS2 link active (simulated).">>)
      [] cb = "start:system_active" ->
           publish_system_command(
               update_all_statuses(append_to_terminal(s, <<"System ACTIVE.">>),
                                   TRUE, TRUE, TRUE, TRUE),
               "start")
      [] cb = "stop:power_down" ->
           append_to_terminal(s, <<"Powering down modules...">>)
      [] cb = "stop:system_inactive" ->
           publish_system_command(
               update_all_statuses(append_to_terminal(s, <<"System INACTIVE.">>),
                                   FALSE, FALSE, FALSE, FALSE),
               "stop")
      [] cb = "reboot:start_system" -> s
      [] cb = "calibrate:complete" ->
           append_to_terminal(s, <<"Calibration complete (simulated).">>)
      [] cb = "scan:result" ->
           append_to_terminal(s, <<"Scan: ", IF found THEN "Target found (simulated)"
                                                      ELSE "No targets (simulated)">>)

\* The body of a one-shot callback; found is random.random() > 0.5, which the
\* scan's callback draws when it runs.
run_callback(s, cb, found) ==
    CASE cb = "start:core_init" ->
           append_to_terminal(s, <<"Core modules initializing...">>)
      [] cb = "start:ros_link" ->
           append_to_terminal(s, <<"ROS2 link active (simulated).">>)
      [] cb = "start:system_active" ->
           publish_system_command(
               update_all_statuses(append_to_terminal(s, <<"System ACTIVE.">>),
                                   TRUE, TRUE, TRUE, TRUE),
               "start")
      [] cb = "stop:power_down" ->
           append_to_terminal(s, <<"Powering down modules...">>)
      [] cb = "stop:system_inactive" ->
           publish_system_command(
               update_all_statuses(append_to_terminal(s, <<"System INACTIVE.">>),
                                   FALSE, FALSE, FALSE, FALSE),
               "stop")
      [] cb = "reboot:start_system" -> start_system(s)
      [] cb = "calibrate:complete" ->
           append_to_terminal(s, <<"Calibration complete (simulated).">>)
      [] cb = "scan:result" ->
           append_to_terminal(s, <<"Scan: ", IF found THEN "Target found (simulated)"
                                                      ELSE "No targets (simulated)">>)

-----------------------------------------------------------------------------
(* Numbers typed as text: float(text), f"{x:.3f}" and str(x).  A float is  *)
(* kept as its number of thousandths; the texts of the model have at most  *)
(* three decimals.                                                         *)

Unsigned(t) == IF Len(t) > 0 /\ t[1] \in {"-", "+"} THEN Tail(t) ELSE t
DotsOf(t) == {i \in 1..Len(t) : t[i] = "."}
IntPart(t) == IF DotsOf(t) = {} THEN t ELSE SubSeq(t, 1, (CHOOSE i \in DotsOf(t) : TRUE) - 1)
FracPart(t) ==
    IF DotsOf(t) = {} THEN <<>> ELSE SubSeq(t, (CHOOSE i \in DotsOf(t) : TRUE) + 1, Len(t))

\* Whether float(t) succeeds, for a text of signs, digits, points and
\* letters other than a NaN's or an infinity's: sign, digits, at most one
\* point, a digit somewhere.
IsFloatText(t) ==
    LET u == Unsigned(t)
    IN  /\ Cardinality(DotsOf(u)) <= 1
        /\ \A i \in 1..Len(u) : IsDigit(u[i]) \/ u[i] = "."
        /\ \E i \in 1..Len(u) : IsDigit(u[i])

\* The three digits of the thousandths n.
Pad3(n) == <<Digits[(n \div 100) + 1], Digits[((n \div 10) % 10) + 1], Digits[(n % 10) + 1]>>

\* float(t), in thousandths.
ParseFloat(t) ==
    LET u == Unsigned(t)
        frac == SubSeq(FracPart(u) \o <<"0", "0", "0">>, 1, 3)
        m == 1000 * StrToNat(IntPart(u)) + StrToNat(frac)
    IN  IF Len(t) > 0 /\ t[1] = "-" THEN -m ELSE m

\* f"{x:.3f}"
Format3f(m) ==
    (IF m < 0 THEN <<"-">> ELSE <<>>) \o NatToStr(Abs(m) \div 1000) \o <<".">>
        \o Pad3(Abs(m) % 1000)

RECURSIVE StripZeros(_)
StripZeros(t) ==
    IF Len(t) > 1 /\ t[Len(t)] = "0" THEN StripZeros(SubSeq(t, 1, Len(t) - 1)) ELSE t

\* str(x) of a Python float: at least one decimal, no trailing zeros.
FloatRepr(m) ==
    (IF m < 0 THEN <<"-">> ELSE <<>>) \o NatToStr(Abs(m) \div 1000) \o <<".">>
        \o StripZeros(Pad3(Abs(m) % 1000))

-----------------------------------------------------------------------------
(* PidTuningPanel.                                                         *)

\* str.upper() on the motor types of the model.
Upper(w) ==
    CASE w = "pan" -> "PAN"
      [] w = "tilt" -> "TILT"
      [] OTHER -> w

\* ROSConnector.publish_pid_settings(motor_type, p_val, i_val, d_val)
publish_pid_settings(s, motor_type, p_val, i_val, d_val) ==
    publish(s, <<"PID ", Upper(motor_type), " -> P:">> \o FloatRepr(p_val)
               \o <<", I:">> \o FloatRepr(i_val) \o <<", D:">> \o FloatRepr(d_val))

\* AirDefenseGUI._handle_pid_settings_applied(pP_s, pI_s, pD_s, tP_s, tI_s, tD_s)
handle_pid_settings_applied(s, pan, tilt) ==
    LET line(name, v) ==
            <<name, "P=">> \o v[1] \o <<" I=">> \o v[2] \o <<" D=">> \o v[3]
        s1 == add_log_entry(s, line("Pan PID set: ", pan), FALSE)
        s2 == add_log_entry(s1, line("Tilt PID set: ", tilt), FALSE)
        s3 == append_to_terminal(s2, line("$ Pan PID: ", pan))
        s4 == append_to_terminal(s3, line("$ Tilt PID: ", tilt))
        s5 == publish_pid_settings(s4, "pan", ParseFloat(pan[1]), ParseFloat(pan[2]),
                                   ParseFloat(pan[3]))
    IN  publish_pid_settings(s5, "tilt", ParseFloat(tilt[1]), ParseFloat(tilt[2]),
                             ParseFloat(tilt[3]))

\* The fields checked and applied motor by motor: the pan values are
\* published before the tilt fields are looked at.
on_apply_settings_clicked_PanFirst(s) ==
    LET pan == s.pid_inputs.pan
        tilt == s.pid_inputs.tilt
        invalid(s0) ==
            append_to_terminal(
                add_log_entry(Mark(s0, "pid:invalid"),
                    <<"Invalid PID: All P,I,D values must be numbers.">>, TRUE),
                <<"ERROR: ", "Invalid PID: All P,I,D values must be numbers.">>)
    IN  IF \A i \in 1..3 : IsFloatText(pan[i])
        THEN LET s1 == publish_pid_settings(s, "pan", ParseFloat(pan[1]),
                                            ParseFloat(pan[2]), ParseFloat(pan[3]))
             IN  IF \A i \in 1..3 : IsFloatText(tilt[i])
                 THEN publish_pid_settings(Mark(s1, "pid:applied"), "tilt",
                          ParseFloat(tilt[1]), ParseFloat(tilt[2]), ParseFloat(tilt[3]))
                 ELSE invalid(s1)
        ELSE invalid(s)

\* PidTuningPanel._on_apply_settings_clicked()
on_apply_settings_clicked(s) ==
    LET pan == s.pid_inputs.pan
        tilt == s.pid_inputs.tilt
    IN  IF \A i \in 1..3 : IsFloatText(pan[i]) /\ IsFloatText(tilt[i])
        THEN handle_pid_settings_applied(Mark(s, "pid:applied"), pan, tilt)
        ELSE LET s1 == add_log_entry(Mark(s, "pid:invalid"),
                           <<"Invalid PID: All P,I,D values must be numbers.">>, TRUE)
             IN  append_to_terminal(s1,
                     <<"ERROR: ", "Invalid PID: All P,I,D values must be numbers.">>)

\* PidTuningPanel.update_pid_input_fields(motor_type, p_val, i_val, d_val);
\* motor_type is already in lower case where the model calls this.
update_pid_input_fields(s, motor_type, p_val, i_val, d_val) ==
    LET texts == <<Format3f(p_val), Format3f(i_val), Format3f(d_val)>>
    IN  IF motor_type = "pan" THEN [s EXCEPT !.pid_inputs.pan = texts]
        ELSE IF motor_type = "tilt" THEN [s EXCEPT !.pid_inputs.tilt = texts]
        ELSE add_log_entry(s, <<"PID Update: Unknown motor type '", motor_type, "'.">>, TRUE)

-----------------------------------------------------------------------------
(* NoFireZoneWidget.  A float here is a record: nan tells a NaN from a     *)
(* number, v is the number in thousandths.  The widget w is the record of  *)
(* its two fields, its status label and the zones it has emitted.          *)

\* float(t) also takes "nan", with or without a sign.
IsNanText(t) == Unsigned(t) = <<"n", "a", "n">>

\* Whether float(t) succeeds, for the texts of the zone's fields.
ZoneFloatParses(t) == IsFloatText(t) \/ IsNanText(t)

\* float(t) where it succeeds.
ZoneFloat(t) ==
    IF IsNanText(t) THEN [nan |-> TRUE, v |-> 0] ELSE [nan |-> FALSE, v |-> ParseFloat(t)]

\* a > b of Python floats: False when a or b is a NaN.
FloatGt(a, b) == ~a.nan /\ ~b.nan /\ a.v > b.v

\* str(x) of a float of the zone.
ZoneFloatRepr(x) == IF x.nan THEN <<"nan">> ELSE FloatRepr(x.v)

\* NoFireZoneWidget.on_set_zone()
on_set_zone(w) ==
    IF ~(ZoneFloatParses(w.input_lower) /\ ZoneFloatParses(w.input_upper))
    THEN [w EXCEPT !.status = <<"Invalid input: please enter numeric limits.">>]
    ELSE LET lower == ZoneFloat(w.input_lower)
             upper == ZoneFloat(w.input_upper)
         IN  IF FloatGt(lower, upper)
             THEN [w EXCEPT !.status = <<"Lower limit must be <= upper limit.">>]
             ELSE [w EXCEPT !.status = <<"Zone: [">> \o ZoneFloatRepr(lower) \o <<", ">>
                                          \o ZoneFloatRepr(upper) \o <<"]">>,
                           !.emitted = Append(@, [x_lower |-> lower, x_upper |-> upper])]

\* NoFireZoneWidget.on_clear_zone()
on_clear_zone(w) ==
    [w EXCEPT !.input_lower = <<>>, !.input_upper = <<>>, !.status = <<"Zone: None">>]

-----------------------------------------------------------------------------
(* The command terminal.  A command is the sequence of its words.          *)

\* The commands the operator types in the model.
TerminalInputs ==
    {<<"help">>, <<"status">>, <<"clear">>, <<"start">>, <<"START">>, <<"stop">>,
     <<"reboot">>, <<"calibrate">>, <<"scan">>, <<"config">>, <<"rosstatus">>,
     <<"roslog", "hello">>, <<"fire">>, <<"pid", "PAN", "1", "0.5", "2">>,
     <<"pid", "roll", "1", "0.5", "2">>, <<"pid", "pan", "x", "0.5", "2">>,
     <<"pid", "pan", "1">>}

\* The commands that start and stop the system.
CoreInputs == {<<"start">>, <<"START">>, <<"stop">>, <<"reboot">>}

\* str.lower() on the words of the model.
Lower(w) ==
    CASE w = "START" -> "start"
      [] w = "PAN" -> "pan"
      [] OTHER -> w

\* str.capitalize() on the motor names.
Capitalize(w) ==
    CASE w = "pan" -> "Pan"
      [] w = "tilt" -> "Tilt"
      [] OTHER -> w

\* The characters of the number words of the model.
Chars(w) ==
    CASE w = "1" -> <<"1">>
      [] w = "2" -> <<"2">>
      [] w = "0.5" -> <<"0", ".", "5">>
      [] OTHER -> <<w>>

LowerAll(command) == [i \in 1..Len(command) |-> Lower(command[i])]

\* The terminal's "status" answer (the lens line is not modelled).
status_text(s) ==
    LET pid(v) == <<"P ">> \o v[1] \o <<", I ">> \o v[2] \o <<", D ">> \o v[3]
    IN  <<"System: ", IF s.system_active THEN "ACTIVE" ELSE "INACTIVE",
          "Laser Target: ">> \o FormatPercent(get_target_power(s))
        \o <<" (Sim Current: ">> \o s.current_power_display_label
        \o <<") Pan PID: ">> \o pid(s.pid_inputs.pan)
        \o <<" Tilt PID: ">> \o pid(s.pid_inputs.tilt)

\* The "pid <pan|tilt> <p> <i> <d>" branch of _handle_terminal_command.
terminal_pid(s, command) ==
    IF Len(command) # 5
    THEN append_to_terminal(Mark(s, "pid:usage"), <<"Usage: pid <pan|tilt> <P> <I> <D>">>)
    ELSE LET motor == Lower(command[2])
             p_s == Chars(command[3])
             i_s == Chars(command[4])
             d_s == Chars(command[5])
         IN  IF ~(IsFloatText(p_s) /\ IsFloatText(i_s) /\ IsFloatText(d_s))
             THEN append_to_terminal(Mark(s, "pid:not_numbers"),
                                     <<"PID values must be numbers.">>)
             ELSE IF motor \notin {"pan", "tilt"}
             THEN append_to_terminal(Mark(s, "pid:bad_motor"),
                                     <<"PID motor must be 'pan' or 'tilt'.">>)
             ELSE LET s1 == update_pid_input_fields(Mark(s, "pid:set"), motor,
                                ParseFloat(p_s), ParseFloat(i_s), ParseFloat(d_s))
                      s2 == on_apply_settings_clicked(s1)
                  IN  append_to_terminal(s2,
                          <<"Terminal: ", Capitalize(motor), " PID set and applied.">>)

\* AirDefenseGUI._handle_terminal_command(command); coins are the values of
\* random.choice([True, False]) that "rosstatus" draws.
handle_terminal_command(s, command, coins) ==
    LET cmd_lower == LowerAll(command)
        s0 == add_log_entry(s, <<"Terminal: '">> \o command \o <<"'">>, FALSE)
    IN  CASE cmd_lower = <<"help">> ->
               append_to_terminal(s0, <<"Commands: help, status, clear, start, stop, reboot, calibrate, scan, config, pid <pan|tilt> <p> <i> <d>, roslog <msg>, rosstatus">>)
          [] cmd_lower = <<"status">> -> append_to_terminal(s0, status_text(s0))
          [] cmd_lower = <<"clear">> ->
               [Mark(s0, "terminal:cleared") EXCEPT
                    !.terminal_added = <<<<"$ Terminal cleared. Ready for commands...">>>>]
          [] cmd_lower = <<"start">> -> start_system(s0)
          [] cmd_lower = <<"stop">> -> stop_system(s0)
          [] cmd_lower = <<"reboot">> ->
               LET s1 == append_to_terminal(s0, <<"Simulating reboot...">>)
                   s2 == IF s1.system_active THEN stop_system(s1) ELSE s1
               IN  singleShot([s2 EXCEPT !.reboot_entered = TRUE],
                              DELAY_REBOOT_START, "reboot:start_system")
          [] cmd_lower = <<"calibrate">> ->
               LET s1 == append_to_terminal(s0, <<"Simulating calibration via ROS...">>)
                   s2 == publish_system_command(s1, "calibrate")
               IN  singleShot(s2, DELAY_CALIBRATED, "calibrate:complete")
          [] cmd_lower = <<"scan">> ->
               IF ~s0.system_active
               THEN append_to_terminal(Mark(s0, "scan:inactive"),
                                       <<"System must be ACTIVE to scan.">>)
               ELSE LET s1 == append_to_terminal(Mark(s0, "scan:run"),
                                  <<"Simulating target scan via ROS...">>)
                        s2 == publish_system_command(s1, "scan_targets")
                    IN  singleShot(s2, DELAY_SCAN_RESULT, "scan:result")
          [] cmd_lower = <<"config">> ->
               append_to_terminal(s0, <<"System Active: ", PyBool(s0.system_active)>>)
          [] cmd_lower[1] = "pid" /\ Len(command) > 1 -> terminal_pid(s0, command)
          [] cmd_lower[1] = "roslog" /\ Len(command) > 1 ->
               add_log_entry(s0, <<"SIM_ROS: ">> \o Tail(command), FALSE)
          [] cmd_lower = <<"rosstatus">> ->
               update_health_from_ros(s0,
                   [esp32 |-> coins[1], laser |-> coins[2], motors |-> s0.system_active,
                    movement |-> s0.system_active /\ coins[3]])
          [] OTHER -> append_to_terminal(s0, <<"Unknown command: ">> \o command)

\* CommandTerminal._submit_input(): the command is echoed, then handled.
submit_input(s, command, coins) ==
    handle_terminal_command(append_to_terminal(s, <<"$ ">> \o command), command, coins)

-----------------------------------------------------------------------------
(* The events of the main window.                                          *)

\* A handler that would leave more than MaxPending timers pending, or more
\* than MaxSame of them for one callback, is not taken.
Bounded(s) ==
    /\ Len(s.pending) <= MaxPending
    /\ \A i \in 1..Len(s.pending) :
           Cardinality({j \in 1..Len(s.pending) : s.pending[j].cb = s.pending[i].cb})
               <= MaxSame
    /\ Commit(s)

\* START SYSTEM clicked (a disabled button cannot be clicked).
StartClicked ==
    /\ start_button_enabled
    /\ Bounded(start_system(Begin("start_clicked")))

\* DISABLE SYSTEM clicked.
StopClicked ==
    /\ stop_button_enabled
    /\ Bounded(stop_system(Begin("stop_clicked")))

\* SHOOT clicked.
ShootClicked == Commit(handle_shoot_command(Begin("shoot_clicked")))

\* A command of the set `inputs` entered in the terminal.
CommandEnteredFrom(inputs) ==
    \E command \in inputs :
        \E coins \in (IF command = <<"rosstatus">>
                      THEN BOOLEAN \X BOOLEAN \X BOOLEAN
                      ELSE {<<FALSE, FALSE, FALSE>>}) :
            Bounded(submit_input(Begin("command_entered"), command, coins))

\* "start", "stop" or "reboot" entered in the terminal.
CoreCommandEntered == CommandEnteredFrom(CoreInputs)

\* Any other command of the model entered in the terminal.
OtherCommandEntered == CommandEnteredFrom(TerminalInputs \ CoreInputs)

\* The "pid ..." commands of the model entered in the terminal.
PidCommandEntered ==
    CommandEnteredFrom({command \in TerminalInputs : command[1] = "pid"})

\* The texts the operator types into a PID field in the model: nothing, a
\* number and a word.
PidTexts == {<<>>, <<"2">>, <<"x">>}

\* The operator replaces the text of one PID field; no handler is connected
\* to the fields, the text is read when the settings are applied.
PidFieldEdited ==
    \E i \in 1..3, text \in PidTexts :
        \/ Commit([Begin("pid_field_edited") EXCEPT !.pid_inputs.pan[i] = text])
        \/ Commit([Begin("pid_field_edited") EXCEPT !.pid_inputs.tilt[i] = text])

\* Apply PID Settings clicked.
ApplyPidClicked == Commit(on_apply_settings_clicked(Begin("apply_pid_clicked")))

\* log_timer.timeout: add_random_log_entry
RandomLogTick ==
    /\ log_timer
    /\ \E is_warning_event \in BOOLEAN :
           \E log_message \in
                   (IF is_warning_event
                    THEN {"High CPU load.", "Unusual movement Sector 4.",
                          "Laser temp elevated."}
                    ELSE {"System status: Nominal.", "Network latency: OK.",
                          "Tracking params updated.", "Battery: Charging."}) :
               Commit(add_random_log_entry(Begin("log_tick"), is_warning_event, log_message))

\* The operator closes the window.
CloseRequested ==
    /\ ~closed
    /\ Commit(closeEvent(Begin("close_event")))

\* The texts the operator types into a field of the no-fire zone in the
\* model: nothing, a word, numbers and "nan".
ZoneTexts == {<<>>, <<"x">>, <<"1">>, <<"2", ".", "5">>, <<"-", "1">>, <<"n", "a", "n">>}

\* The operator replaces the text of one of the zone's fields.
ZoneFieldEdited ==
    \E text \in ZoneTexts :
        \/ Commit([Begin("zone_field_edited") EXCEPT !.no_fire_zone.input_lower = text])
        \/ Commit([Begin("zone_field_edited") EXCEPT !.no_fire_zone.input_upper = text])

\* Set Zone clicked.
SetZoneClicked ==
    Commit([Begin("set_zone_clicked") EXCEPT !.no_fire_zone = on_set_zone(@)])

\* Clear Zone clicked.
ClearZoneClicked ==
    Commit([Begin("clear_zone_clicked") EXCEPT !.no_fire_zone = on_clear_zone(@)])

\* Start Camera clicked (the button is disabled while the feed is active).
StartCameraClicked ==
    /\ ~is_camera_feed_active
    /\ \E opened \in BOOLEAN :
           Commit(start_camera_feed(Begin("start_camera_clicked"), opened))

\* Stop Camera clicked (the button is enabled while the feed is active).
StopCameraClicked ==
    /\ is_camera_feed_active
    /\ Commit(stop_camera_feed(Begin("stop_camera_clicked")))

\* The one-shot timer that is due runs its callback.
TimerFired ==
    /\ pending # <<>>
    /\ pending[1].due = 0
    /\ \E found \in (IF pending[1].cb = "scan:result" THEN BOOLEAN ELSE {FALSE}) :
           Bounded(run_callback(
               [Begin("timer_fired") EXCEPT !.pending = Tail(@), !.trace = Append(@, pending[1].cb)],
               pending[1].cb, found))

\* 100 ms pass with no timer due and no handler running.
TimePasses ==
    /\ pending # <<>>
    /\ \A i \in 1..Len(pending) : pending[i].due > 0
    /\ Commit([Begin("time_passes") EXCEPT
                  !.pending = [i \in 1..Len(pending) |-> [pending[i] EXCEPT !.due = @ - 1]]])

-----------------------------------------------------------------------------
(* The program from its construction.                                      *)

NoHealth == [esp32 |-> FALSE, laser |-> FALSE, motors |-> FALSE, movement |-> FALSE]
AllHealth == [esp32 |-> TRUE, laser |-> TRUE, motors |-> TRUE, movement |-> TRUE]

\* The PID fields as PidTuningPanel._initUI fills them: "1.0", "0.1", "0.01".
InitialPid == <<<<"1", ".", "0">>, <<"0", ".", "1">>, <<"0", ".", "0", "1">>>>

\* What the widgets' constructors set, whatever the power and the activation.
InitWidgets ==
    /\ target_power_display_label = FormatPercent(target_power_slider)
    /\ is_camera_feed_active = FALSE
    /\ pending = <<>>
    /\ log_added = <<>>
    /\ terminal_added = <<>>
    /\ ros_published = <<>>
    /\ pid_inputs = [pan |-> InitialPid, tilt |-> InitialPid]
    /\ trace = <<"init">>
    /\ prev_current = LabelValue(current_power_display_label)
    /\ log_timer = TRUE
    /\ power_simulation_timer = TRUE
    /\ closed = FALSE
    /\ reboot_entered = FALSE
    /\ frame = IdleFrame
    /\ no_fire_zone = [input_lower |-> <<>>, input_upper |-> <<>>,
                       status |-> <<"Zone: None">>, emitted |-> <<>>]

\* AirDefenseGUI.__init__ and the constructors of its components.
Init ==
    /\ system_active = FALSE
    /\ current_power_display_label = <<"0", "%">>
    /\ target_power_slider = DEFAULT_TARGET
    /\ start_button_enabled = TRUE
    /\ stop_button_enabled = FALSE
    /\ health = NoHealth
    /\ last_request = "none"
    /\ last_published = "none"
    /\ InitWidgets

\* The program with a start sequence or a stop sequence over and nothing
\* pending, at the power c and the target t.
Settled(is_active, c, t) ==
    /\ system_active = is_active
    /\ current_power_display_label = FormatPercent(c)
    /\ target_power_slider = t
    /\ start_button_enabled = ~is_active
    /\ stop_button_enabled = is_active
    /\ health = (IF is_active THEN AllHealth ELSE NoHealth)
    /\ last_request = (IF is_active THEN "start" ELSE "stop")
    /\ last_published = (IF is_active THEN "start" ELSE "stop")
    /\ InitWidgets

\* The runs of the model are of four kinds, each from states the program
\* reaches and each exercising some of its handlers:
\*   "drive"  from the construction, the target at its default: ticks, the
\*            start and stop buttons and the one-shot timers;
\*   "power"  from every power, active or not, with the target at its default
\*            or at LowTarget: ticks, the slider dragged to a stop and its
\*            -5/+5 buttons, which take the target to every multiple of 5 and
\*            every LowTarget + 5k;
\*   "core"   from a stopped system with the target and the power at
\*            LowTarget: every way to start and stop (buttons, terminal,
\*            reboot), shoot, the camera and the one-shot timers;
\*   "other"  from a settled system, active or not, with the target and the
\*            power at LowTarget: the terminal commands that do not start or
\*            stop, and the one-shot timers.
InitDrive == scenario = "drive" /\ Init

InitPower ==
    /\ scenario = "power"
    /\ \E is_active \in BOOLEAN, c \in POWER_MIN..POWER_MAX,
          t \in {DEFAULT_TARGET, LowTarget} :
           Settled(is_active, c, t)

InitCore == scenario = "core" /\ Settled(FALSE, LowTarget, LowTarget)

InitOther ==
    /\ scenario = "other"
    /\ \E is_active \in BOOLEAN : Settled(is_active, LowTarget, LowTarget)

NextDrive ==
    \/ Tick
    \/ StartClicked
    \/ StopClicked
    \/ TimerFired
    \/ TimePasses

NextPower ==
    \/ Tick
    \/ SliderMoved
    \/ DecreaseClicked
    \/ IncreaseClicked

NextCore ==
    \/ StartClicked
    \/ StopClicked
    \/ ShootClicked
    \/ CoreCommandEntered
    \/ StartCameraClicked
    \/ StopCameraClicked
    \/ TimerFired
    \/ TimePasses

NextOther ==
    \/ OtherCommandEntered
    \/ TimerFired
    \/ TimePasses

SpecDrive == InitDrive /\ [][NextDrive]_vars
SpecPower == InitPower /\ [][NextPower]_vars
SpecCore == InitCore /\ [][NextCore]_vars
SpecOther == InitOther /\ [][NextOther]_vars

\* The runs of an active system whose target is left alone, from every power
\* and from the ends of the target's range, its default and LowTarget: the
\* power timer fires again and again (a QTimer started with an interval of
\* 2500 ms times out every 2.5 s), so a tick that is due is not put off for
\* ever.
InitConverge ==
    /\ scenario = "converge"
    /\ \E c \in POWER_MIN..POWER_MAX,
          t \in {POWER_MIN, LowTarget, DEFAULT_TARGET, POWER_MAX} :
           Settled(TRUE, c, t)

NextConverge == Tick

SpecConverge == InitConverge /\ [][NextConverge]_vars /\ WF_vars(Tick)

\* The runs of the PID panel: the fields edited, the settings applied with
\* the button and the "pid" commands of the terminal.
InitPid ==
    /\ scenario = "pid"
    /\ \E is_active \in BOOLEAN : Settled(is_active, LowTarget, LowTarget)

NextPid ==
    \/ PidFieldEdited
    \/ ApplyPidClicked
    \/ PidCommandEntered

SpecPid == InitPid /\ [][NextPid]_vars

\* The runs of the no-fire zone widget, which stands alone: the main window
\* does not create it.
InitZone == scenario = "zone" /\ Settled(FALSE, LowTarget, LowTarget)

NextZone ==
    \/ ZoneFieldEdited
    \/ SetZoneClicked
    \/ ClearZoneClicked

SpecZone == InitZone /\ [][NextZone]_vars

\* The runs up to the close of the window and after it: the two periodic
\* timers, the camera buttons, the start and stop buttons and their one-shot
\* timers, which the close does not cancel.  A closed window takes no click.
InitClose ==
    /\ scenario = "close"
    /\ \E is_active \in BOOLEAN : Settled(is_active, LowTarget, LowTarget)

NextClose ==
    \/ Tick
    \/ RandomLogTick
    \/ ~closed /\ StartClicked
    \/ ~closed /\ StopClicked
    \/ ~closed /\ StartCameraClicked
    \/ ~closed /\ StopCameraClicked
    \/ CloseRequested
    \/ TimerFired
    \/ TimePasses

SpecClose == InitClose /\ [][NextClose]_vars

\* The runs that follow the tick statement by statement, among the handlers
\* of the start and stop buttons, the SHOOT button, the decrease button of
\* the target and the one-shot timers.
InitSteps ==
    /\ scenario = "steps"
    /\ \E is_active \in BOOLEAN : Settled(is_active, LowTarget, LowTarget)

NextSteps ==
    \/ Dispatchable /\ TickEnter
    \/ TickReadCurrent
    \/ TickReadTarget
    \/ TickWrite
    \/ Dispatchable /\ StartClicked
    \/ Dispatchable /\ StopClicked
    \/ Dispatchable /\ DecreaseClicked
    \/ Dispatchable /\ ShootClicked
    \/ Dispatchable /\ TimerFired
    \/ Dispatchable /\ TimePasses

SpecSteps == InitSteps /\ [][NextSteps]_vars

\* The runs with one "reboot": clicks on the start and stop buttons before
\* it, and after it no input, only the one-shot timers.  Time passes and a
\* one-shot timer that is due fires: the event loop runs on.
RebootEntered == CommandEnteredFrom({<<"reboot">>})

InitReboot ==
    /\ scenario = "reboot"
    /\ \E is_active \in BOOLEAN : Settled(is_active, LowTarget, LowTarget)

NextReboot ==
    \/ ~reboot_entered /\ StartClicked
    \/ ~reboot_entered /\ StopClicked
    \/ ~reboot_entered /\ RebootEntered
    \/ TimerFired
    \/ TimePasses

SpecReboot ==
    InitReboot /\ [][NextReboot]_vars /\ WF_vars(TimerFired) /\ WF_vars(TimePasses)

\* The runs from the construction with the SHOOT button as well: ticks and
\* fire requests between the start and stop requests and their callbacks.
NextSync ==
    \/ NextDrive
    \/ ShootClicked

SpecSync == InitDrive /\ [][NextSync]_vars

\* Every kind of run.
InitAny == InitDrive \/ InitPower \/ InitCore \/ InitOther

Next ==
    \/ scenario = "drive" /\ NextDrive
    \/ scenario = "power" /\ NextPower
    \/ scenario = "core" /\ NextCore
    \/ scenario = "other" /\ NextOther

Spec == InitAny /\ [][Next]_vars

-----------------------------------------------------------------------------
(* The properties.  In each of them the expected value is written out from *)
(* the statement, not taken from the operators of the model above.         *)

\* C1: in every reachable state the current power is an integer of 0..100.
C1_CurrentInRange == current \in Int /\ 0 <= current /\ current <= 100

\* C1: a tick at the top of the range has left the power at 100.
C1_Witness ==
    /\ trace = <<"tick", "tick:noise">>
    /\ prev_current = 100
    /\ current = 100

\* C2: a fire request handled while the system is inactive leaves active,
\* current and target unchanged, publishes nothing and reports the "system
\* inactive" warning in the log and in the terminal; and a 'fire' laser action
\* is among the lines just published only in a state where active is true.
C2_FireOnlyWhenActive ==
    /\ [][(~active /\ ShootClicked) =>
              /\ active' = active
              /\ current' = current
              /\ target' = target
              /\ ros_published' = <<>>
              /\ log_added' = <<[warn |-> TRUE, msg |-> <<"Cannot SHOOT: System INACTIVE.">>]>>
              /\ terminal_added' = <<<<"WARN: ", "Cannot SHOOT: System INACTIVE.">>>>]_vars
    /\ []((\E i \in 1..Len(ros_published) :
               ros_published[i] = <<"Laser Action -> ", "fire">>) => active)

\* C2: SHOOT has been handled while the system is inactive.
C2_Witness ==
    /\ trace = <<"shoot_clicked", "shoot:inactive">>
    /\ ~active
    /\ ros_published = <<>>

\* C3: after the target is set to a requested value v, the -5/+5 buttons'
\* values below 0 and above 100 included, the target read back is v bounded
\* to 0..100; the target is in 0..100 in every state.
C3_TargetClamped ==
    /\ [][LET clamp(v) == IF v < 0 THEN 0 ELSE IF v > 100 THEN 100 ELSE v
          IN  /\ DecreaseClicked => get_target_power(State)' = clamp(target - 5)
              /\ IncreaseClicked => get_target_power(State)' = clamp(target + 5)]_vars
    /\ [](target \in 0..100)

\* C3: +5 was requested at a target above 95 and the target read back is 100.
C3_Witness ==
    /\ trace = <<"increase_clicked", "slider:changed">>
    /\ target = 100
    /\ target_power_display_label = <<"1", "0", "0", "%">>

\* C4 as stated: with the system active and |target - current| > 2, a tick
\* changes current by (target - current)/5 rounded to the nearest integer, by
\* +1 or -1 in the direction of the target when that is 0, and then bounds it
\* to 0..100.
C4_RoundedStep ==
    [][LET clamp(v) == IF v < 0 THEN 0 ELSE IF v > 100 THEN 100 ELSE v
        diff == target - current
        rounded == IF diff >= 0 THEN (2 * diff + 5) \div 10
                                ELSE -((2 * (-diff) + 5) \div 10)
        step == IF rounded # 0 THEN rounded ELSE IF diff > 0 THEN 1 ELSE -1
    IN  (active /\ (diff > 2 \/ diff < -2) /\ Tick) =>
            current' = clamp(current + step)]_vars

\* C4 amended: with the system active and |target - current| > 2, a tick
\* changes current by (target - current)/5 truncated toward zero, by +1 or -1
\* in the direction of the target when that is 0, and then bounds it to
\* 0..100.
C4_TruncatedStep ==
    [][LET clamp(v) == IF v < 0 THEN 0 ELSE IF v > 100 THEN 100 ELSE v
        diff == target - current
        truncated == IF diff >= 0 THEN diff \div 5 ELSE -((-diff) \div 5)
        step == IF truncated # 0 THEN truncated ELSE IF diff > 0 THEN 1 ELSE -1
    IN  (active /\ (diff > 2 \/ diff < -2) /\ Tick) =>
            current' = clamp(current + step)]_vars

\* C4: an active tick 8 below the target has moved the power by 1 (8/5
\* truncated), where rounding would have moved it by 2.
C4_Witness ==
    /\ trace = <<"tick", "tick:adjust">>
    /\ active
    /\ target = 8
    /\ prev_current = 0
    /\ current = 1

\* C5: with target 80, current 0 and the system active, one tick leaves
\* current at exactly 16, whatever the random draws.
C5_EightyFromZero ==
    [][(active /\ target = 80 /\ current = 0 /\ Tick) => current' = 16]_vars

\* C5: the tick of the scenario has run.
C5_Witness ==
    /\ trace = <<"tick", "tick:adjust">>
    /\ active
    /\ target = 80
    /\ prev_current = 0
    /\ current = 16

\* C6: with the system active and |target - current| <= 2, a tick leaves
\* current at one of current - 1, current, current + 1 bounded to 0..100, and
\* each of the three can be the outcome whatever the target is.
C6_NoiseNearTarget ==
    /\ [][LET clamp(v) == IF v < 0 THEN 0 ELSE IF v > 100 THEN 100 ELSE v
          IN  (active /\ target - current <= 2 /\ current - target <= 2 /\ Tick) =>
                  current' \in {clamp(current - 1), clamp(current), clamp(current + 1)}]_vars
    /\ [](LET clamp(v) == IF v < 0 THEN 0 ELSE IF v > 100 THEN 100 ELSE v
          IN  (active /\ target - current <= 2 /\ current - target <= 2) =>
                  TickOutcomes = {clamp(current - 1), clamp(current), clamp(current + 1)})

\* C6: a tick one below the target has moved the power away from the target.
C6_Witness ==
    /\ trace = <<"tick", "tick:noise">>
    /\ active
    /\ target = 50
    /\ prev_current = 49
    /\ current = 48

\* C7: with the system inactive, a tick leaves current at max(0, current - r)
\* + n bounded to 0..100 for some r of 1..3 and n of -1..1, and every such
\* value can be the outcome, whatever the target is.
C7_InactiveDecay ==
    /\ [][LET clamp(v) == IF v < 0 THEN 0 ELSE IF v > 100 THEN 100 ELSE v
              floor0(v) == IF v < 0 THEN 0 ELSE v
          IN  (~active /\ Tick) =>
                  \E r \in 1..3, n \in {-1, 0, 1} :
                      current' = clamp(floor0(current - r) + n)]_vars
    /\ [](LET clamp(v) == IF v < 0 THEN 0 ELSE IF v > 100 THEN 100 ELSE v
              floor0(v) == IF v < 0 THEN 0 ELSE v
          IN  ~active =>
                  TickOutcomes = {clamp(floor0(current - r) + n) :
                                      r \in 1..3, n \in {-1, 0, 1}})

\* C7: an inactive tick at power 0 has raised the power to 1, the target
\* being 0.
C7_Witness ==
    /\ trace = <<"tick", "tick:decay">>
    /\ ~active
    /\ target = 0
    /\ prev_current = 0
    /\ current = 1

\* C8: a start handled while the system is active is a no-op.  Entered in the
\* terminal as "start", it adds nothing to the terminal's own echo and log
\* record; run as the delayed start of "reboot", it adds nothing at all.  In
\* both cases active stays true, no one-shot callback is scheduled, the health
\* display and the buttons are not updated and nothing is published.
C8_StartWhileActiveNoOp ==
    [][LET same == UNCHANGED <<system_active, current_power_display_label,
                            target_power_slider, target_power_display_label,
                            start_button_enabled, stop_button_enabled, health,
                            is_camera_feed_active, pid_inputs>>
    IN     /\ (active /\ CommandEnteredFrom({<<"start">>, <<"START">>})) =>
                  /\ same
                  /\ active'
                  /\ pending' = pending
                  /\ ros_published' = <<>>
                  /\ Len(log_added') = 1
                  /\ log_added'[1].msg[1] = "Terminal: '"
                  /\ Len(terminal_added') = 1
                  /\ terminal_added'[1][1] = "$ "
           /\ (active /\ pending # <<>> /\ pending[1].cb = "reboot:start_system"
                      /\ TimerFired) =>
                  /\ same
                  /\ active'
                  /\ pending' = Tail(pending)
                  /\ ros_published' = <<>>
                  /\ log_added' = <<>>
                  /\ terminal_added' = <<>>]_vars

\* C8: the delayed start of a reboot has run with the system already active.
C8_Witness ==
    /\ trace = <<"timer_fired", "reboot:start_system", "start_system:return">>
    /\ active

\* C9: "stop" entered in the terminal while the system is inactive is a
\* no-op: beyond the terminal's own echo and log record nothing is logged, the
\* camera feed is not stopped, no one-shot callback is scheduled, the health
\* display and the buttons are not updated and nothing is published.
C9_StopWhileInactiveNoOp ==
    [][(~active /\ CommandEnteredFrom({<<"stop">>})) =>
           /\ UNCHANGED <<system_active, current_power_display_label,
                          target_power_slider, target_power_display_label,
                          start_button_enabled, stop_button_enabled, health,
                          is_camera_feed_active, pid_inputs, pending>>
           /\ ros_published' = <<>>
           /\ Len(log_added') = 1
           /\ log_added'[1].msg[1] = "Terminal: '"
           /\ terminal_added' = <<<<"$ ", "stop">>>>]_vars

\* C9: "stop" has been handled with the system inactive and the camera feed
\* running.
C9_Witness ==
    /\ trace = <<"command_entered", "stop_system:return">>
    /\ ~active
    /\ is_camera_feed_active

\* C10: a step that changes current is a tick (so start, stop, set-target,
\* fire, the terminal commands and the delayed callbacks leave it as it is),
\* and a tick changes neither target nor active: a step that changes one of
\* them is not a tick.
C10_OnlyTickChangesCurrent ==
    [][/\ (current' # current) => Tick
       /\ (target' # target \/ active' # active) => ~Tick]_vars

\* C10: the system was stopped at a power above 0, which the stop left alone.
C10_Witness ==
    /\ trace = <<"stop_clicked", "stop_system:run">>
    /\ prev_current > 0
    /\ current = prev_current

\* C11: the activation flag is false after construction, and a step that
\* changes it handles a start or stop request: the start or stop button,
\* "start", "stop" or "reboot" in the terminal, or the delayed start of a
\* reboot.  Ticks, fire, set-target, "rosstatus" with the health update it
\* delivers, the other terminal commands and the delayed callbacks of the
\* start and stop sequences leave it as it is.
C11_ActivationOnlyByStartStop ==
    /\ [](Init => ~active)
    /\ [][(active' # active) =>
              \/ StartClicked
              \/ StopClicked
              \/ CoreCommandEntered
              \/ (pending # <<>> /\ pending[1].cb = "reboot:start_system" /\ TimerFired)]_vars

\* C11: the last callback of a start sequence has run after the system was
\* stopped again, and has left the flag false.
C11_Witness ==
    /\ trace = <<"timer_fired", "start:system_active">>
    /\ ~active

\* C12: once a start request has been handled and until a stop request is,
\* active is true in every state, whether or not the callbacks of the start
\* sequence have run: a fire request then publishes 'fire' and a tick moves
\* the power as for an active system.  Once a stop request has been handled
\* and until a start request is, active is false: a fire request publishes
\* nothing and a tick lets the power decay.
C12_ActivationSynchronous ==
    /\ [](last_request = "start" => active)
    /\ [](last_request = "stop" => ~active)
    /\ [][LET clamp(v) == IF v < 0 THEN 0 ELSE IF v > 100 THEN 100 ELSE v
              floor0(v) == IF v < 0 THEN 0 ELSE v
              diff == target - current
              truncated == IF diff >= 0 THEN diff \div 5 ELSE -((-diff) \div 5)
              step == IF truncated # 0 THEN truncated ELSE IF diff > 0 THEN 1 ELSE -1
          IN  /\ (last_request = "start" /\ ShootClicked) =>
                     ros_published' = <<<<"Laser Action -> ", "fire">>>>
              /\ (last_request = "stop" /\ ShootClicked) => ros_published' = <<>>
              /\ (last_request = "start" /\ Tick) =>
                     IF diff > 2 \/ diff < -2
                     THEN current' = clamp(current + step)
                     ELSE current' \in {clamp(current - 1), clamp(current), clamp(current + 1)}
              /\ (last_request = "stop" /\ Tick) =>
                     \E r \in 1..3, n \in {-1, 0, 1} :
                         current' = clamp(floor0(current - r) + n)]_vars

\* C12: a tick has run between a start request and the last callback of its
\* start sequence, and has moved the power toward the target.
C12_Witness ==
    /\ trace = <<"tick", "tick:adjust">>
    /\ last_request = "start"
    /\ \E i \in 1..Len(pending) : pending[i].cb = "start:system_active"
    /\ health = NoHealth
    /\ current > prev_current

\* C13: while the system stays active and the target is not changed, with the
\* power timer firing again and again, from every current of 0..100 the power
\* eventually is within 2 of the target.
C13_ConvergesWhenActive ==
    <>(active /\ target - current <= 2 /\ current - target <= 2)

\* C13: a tick has brought the power from more than 2 away to within 2 of
\* the target.
C13_Witness ==
    /\ scenario = "converge"
    /\ trace = <<"tick", "tick:adjust">>
    /\ (target - prev_current > 2 \/ prev_current - target > 2)
    /\ target - current <= 2
    /\ current - target <= 2

\* C14: an inactive system has no power it settles at: at power 0 a tick can
\* show 1 (the noise is added after the floor at 0), and at power 1 a tick
\* can show 1 again or 0, so the inactive ticks can go on for ever without
\* the power staying at 0.
C14_InactiveNeverSettles ==
    /\ (~active /\ current = 0) => 1 \in TickOutcomes
    /\ (~active /\ current = 1) => TickOutcomes = {0, 1}

\* C14: an inactive tick at power 0 has raised the power to 1, the target
\* being the default one.
C14_Witness ==
    /\ trace = <<"tick", "tick:decay">>
    /\ ~active
    /\ target = DEFAULT_TARGET
    /\ prev_current = 0
    /\ current = 1

\* C19: with no ROS status message and no 'rosstatus' command, whenever no
\* delayed callback of a start or stop sequence is pending, the four health
\* indicators are all OK if the system is active and all in error if it is
\* inactive, whatever the interleaving of the start and stop requests.
C19_HealthMatchesActivation ==
    (\A i \in 1..Len(pending) :
         pending[i].cb \notin {"start:core_init", "start:ros_link", "start:system_active",
                               "stop:power_down", "stop:system_inactive"})
        => health = (IF active THEN AllHealth ELSE NoHealth)

\* C20: whenever no delayed callback is pending, the start or stop command
\* published last is the one of the activation transition made last: "start"
\* if the system is active, "stop" if it is inactive.
C20_PublishedMatchesActivation ==
    pending = <<>> => last_published = (IF active THEN "start" ELSE "stop")

C16_EmittedZoneOrdered ==
    \A k \in 1..Len(no_fire_zone.emitted) :
        LET zone == no_fire_zone.emitted[k]
        IN  /\ ~zone.x_lower.nan
            /\ ~zone.x_upper.nan
            /\ zone.x_lower.v <= zone.x_upper.v

\* C18: the handler of the close event stops the power timer and the log
\* timer and releases the camera; from then on both timers stay stopped, no
\* tick and no random log entry happens, and the current power never changes
\* again, whatever one-shot timers still fire.
C18_NoTickAfterClose ==
    /\ [](closed => (~power_simulation_timer /\ ~log_timer))
    /\ [][(~closed /\ closed') =>
              /\ ~power_simulation_timer'
              /\ ~log_timer'
              /\ ~is_camera_feed_active'
              /\ current' = current]_vars
    /\ [][closed =>
              /\ closed'
              /\ current' = current
              /\ trace'[1] \notin {"tick", "log_tick"}]_vars

\* C18: the window was closed with the one-shot timers of a start sequence
\* pending, and the last of these has fired since.
C18_Witness ==
    /\ closed
    /\ trace = <<"timer_fired", "start:system_active">>
    /\ active
    /\ ~is_camera_feed_active
    /\ log_added = <<>>

C21_StartSequenceOrder ==
    /\ [](LET has(cb) == \E i \in 1..Len(pending) : pending[i].cb = cb
          IN  (last_request = "start" /\ has("start:system_active")) =>
                  /\ active
                  /\ ~start_button_enabled
                  /\ stop_button_enabled
                  /\ health = [esp32 |-> FALSE, laser |-> FALSE,
                               motors |-> FALSE, movement |-> FALSE]
                  /\ has("start:core_init") => has("start:ros_link"))
    /\ [][(/\ last_request = "start"
           /\ pending # <<>>
           /\ pending[1].cb = "start:system_active"
           /\ pending' = Tail(pending)) =>
              /\ terminal_added' = <<<<"System ACTIVE.">>>>
              /\ health' = [esp32 |-> TRUE, laser |-> TRUE,
                            motors |-> TRUE, movement |-> TRUE]
              /\ ros_published' = <<<<"System Command -> ", "start">>>>]_vars

\* C22: after "reboot" with no further input the system eventually is active
\* with the four health indicators OK, nothing pending and "start" the
\* command published last.  "reboot" entered while the system is active stops
\* it at once, and the delayed start of the reboot is still to come as long
\* as the "stop" of that stop sequence is not yet published.
C22_RebootEndsActive ==
    /\ reboot_entered ~>
           (/\ active
            /\ health = [esp32 |-> TRUE, laser |-> TRUE, motors |-> TRUE, movement |-> TRUE]
            /\ pending = <<>>
            /\ last_published = "start")
    /\ [][(active /\ ~reboot_entered /\ reboot_entered') =>
              /\ ~active'
              /\ \E i \in 1..Len(pending') : pending'[i].cb = "stop:system_inactive"]_vars
    /\ [](LET has(cb) == \E i \in 1..Len(pending) : pending[i].cb = cb
          IN  (reboot_entered /\ has("stop:system_inactive")) =>
                  (~active /\ has("reboot:start_system")))

\* C22: "reboot" was entered while the system was active: the stop sequence
\* has published its "stop", and the delayed start is still pending.
C22_Witness ==
    /\ reboot_entered
    /\ trace = <<"timer_fired", "stop:system_inactive">>
    /\ last_published = "stop"
    /\ ~active
    /\ \E i \in 1..Len(pending) : pending[i].cb = "reboot:start_system"

\* C23: in every state between two handlers the START SYSTEM button is
\* enabled exactly when the system is inactive and the DISABLE SYSTEM button
\* exactly when it is active.
C23_ButtonsMatchActivation ==
    /\ start_button_enabled = ~active
    /\ stop_button_enabled = active

\* C23: the start button has been clicked and has started the system.
C23_Witness ==
    /\ trace = <<"start_clicked", "start_system:run">>
    /\ active
    /\ ~start_button_enabled
    /\ stop_button_enabled

\* C24: with the system active and the power more than 2 away from the
\* target, a tick has an outcome, and every outcome lies strictly between the
\* old power and the target or is the target: the distance to the target
\* strictly decreases and the target is not overshot.
C24_StepTowardTarget ==
    (active /\ (target - current > 2 \/ current - target > 2)) =>
        /\ TickOutcomes # {}
        /\ \A v \in TickOutcomes :
               \/ current < v /\ v <= target
               \/ target <= v /\ v < current

\* C24: a tick of the active system has moved the power down by more than
\* one, and it is still above the target.
C24_Witness ==
    /\ trace = <<"tick", "tick:adjust">>
    /\ active
    /\ current < prev_current - 1
    /\ target < current

\* C25: with the system active, a tick of a state whose power is within 3 of
\* the target leaves it within 3 of the target, so with the target unchanged
\* the band of width 3 is never left; a power within 2 of the target need not
\* stay within 2: at a distance of exactly 2, and not at an end of the range,
\* a tick can leave the power at a distance of 3.
C25_BandOfThreeKept ==
    /\ (active /\ target - current <= 3 /\ current - target <= 3) =>
           \A v \in TickOutcomes : target - v <= 3 /\ v - target <= 3
    /\ (active /\ 0 < current /\ current < 100
               /\ (target - current = 2 \/ current - target = 2)) =>
           \E v \in TickOutcomes : target - v = 3 \/ v - target = 3

\* C25: a tick of the active system has taken the power from 2 below the
\* target to 3 below it.
C25_Witness ==
    /\ trace = <<"tick", "tick:noise">>
    /\ active
    /\ target - prev_current = 2
    /\ target - current = 3

\* C26: with the system inactive a tick never raises the power above
\* max(current, 1): from a power of at least 1 no outcome is above the old
\* power, and from 0 the outcomes are 0 and 1 only.
C26_InactiveNeverRises ==
    /\ (~active /\ current >= 1) => \A v \in TickOutcomes : v <= current
    /\ (~active /\ current = 0) => TickOutcomes \subseteq {0, 1}
    /\ ~active => TickOutcomes # {}

\* C26: an inactive tick has left the power where it was, above 1.
C26_Witness ==
    /\ trace = <<"tick", "tick:decay">>
    /\ ~active
    /\ prev_current > 1
    /\ current = prev_current

\* C27: a handler that has answered "Terminal: <Motor> PID set and applied."
\* in the terminal has published PID settings, whatever the fields of the
\* other motor hold.
C27_AppliedMeansPublished ==
    (\E k \in 1..Len(terminal_added) :
         terminal_added[k] \in {<<"Terminal: ", "Pan", " PID set and applied.">>,
                                <<"Terminal: ", "Tilt", " PID set and applied.">>})
        => \E k \in 1..Len(ros_published) : ros_published[k][1] = "PID "

====
